---------------------------- MODULE Spec2Model ----------------------------
(***************************************************************************)
(* Model of stboot's partition search (partitions.go): findPartition,      *)
(* getBlockDevs, deviceByPartLabel and decodeLabel.                        *)
(*                                                                         *)
(* Go strings and byte slices are sequences of byte values (0..255); the   *)
(* empty string "" is the empty sequence <<>>.                             *)
(***************************************************************************)
EXTENDS Integers, Sequences, FiniteSets, TLC

(***************************************************************************)
(* Bounds of the model.                                                    *)
(***************************************************************************)
\* largest number of entries under /sys/class/block in one walk
MaxDevs == 3
\* largest number of entries in a GPT partition array
MaxParts == 2
\* largest retry budget passed to findPartition
MaxTimeout == 2
\* width of a partition entry's name field, in UTF-16 code units
NameUnits == 7
\* largest number of UTF-16 code units of a decodeLabel input
MaxUnits == 3

(***************************************************************************)
(* String literals of the program, as byte sequences.                      *)
(***************************************************************************)
STBOOT == <<83, 84, 66, 79, 79, 84>>
STDATA == <<83, 84, 68, 65, 84, 65>>
vfat == <<118, 102, 97, 116>>
ext4 == <<101, 120, 116, 52>>
boot == <<98, 111, 111, 116>>
data == <<100, 97, 116, 97>>
loop == <<108, 111, 111, 112>>
slashDev == <<47, 100, 101, 118>>
Slash == <<47>>
NulCutset == <<0>>

bootPartitionFSType == vfat
bootPartitionLabel == STBOOT
bootPartitionMountPoint == boot
dataPartitionFSType == ext4
dataPartitionLabel == STDATA
dataPartitionMountPoint == data

(***************************************************************************)
(* The Go library functions the program calls on strings.                  *)
(***************************************************************************)
\* strings.HasPrefix
HasPrefix(s, prefix) ==
    /\ Len(s) >= Len(prefix)
    /\ SubSeq(s, 1, Len(prefix)) = prefix

\* strings.TrimPrefix
TrimPrefix(s, prefix) ==
    IF HasPrefix(s, prefix) THEN SubSeq(s, Len(prefix) + 1, Len(s)) ELSE s

\* strings.Contains
Contains(s, substr) ==
    \E i \in 0..(Len(s) - Len(substr)) : SubSeq(s, i + 1, i + Len(substr)) = substr

\* strconv.Itoa, for n >= 0
RECURSIVE Itoa(_)
Itoa(n) ==
    IF n < 10 THEN <<48 + n>> ELSE Itoa(n \div 10) \o <<48 + (n % 10)>>

\* strings.TrimLeft(s, cutset) for a cutset of one ASCII byte
RECURSIVE TrimLeft(_, _)
TrimLeft(s, cutset) ==
    IF s # <<>> /\ Head(s) = cutset[1] THEN TrimLeft(Tail(s), cutset) ELSE s

\* strings.TrimRight(s, cutset) for a cutset of one ASCII byte
RECURSIVE TrimRight(_, _)
TrimRight(s, cutset) ==
    IF s # <<>> /\ s[Len(s)] = cutset[1]
    THEN TrimRight(SubSeq(s, 1, Len(s) - 1), cutset)
    ELSE s

\* strings.Trim(s, cutset): leading and trailing bytes of the cutset removed
Trim(s, cutset) == TrimRight(TrimLeft(s, cutset), cutset)

\* filepath.Join(dir, rel) for a clean dir and a single path element rel
Join(dir, rel) == dir \o Slash \o rel

\* byte-wise order of Go strings, the order filepath.Walk visits names in
RECURSIVE LexLess(_, _)
LexLess(a, b) ==
    IF a = <<>> THEN b # <<>>
    ELSE IF b = <<>> THEN FALSE
    ELSE IF Head(a) # Head(b) THEN Head(a) < Head(b)
    ELSE LexLess(Tail(a), Tail(b))

\* the names of a directory in the order filepath.Walk visits them
RECURSIVE WalkOrder(_)
WalkOrder(names) ==
    IF names = {} THEN <<>>
    ELSE LET first == CHOOSE x \in names : \A y \in names \ {x} : LexLess(x, y)
         IN  <<first>> \o WalkOrder(names \ {first})

(***************************************************************************)
(* decodeLabel (partitions.go:167-186).                                    *)
(***************************************************************************)
\* uint16(b[i]) + (uint16(b[i+1]) << 8), in 16 bits
CodeUnit(lo, hi) == (lo + hi * 256) % 65536

\* utf16.Decode of a slice holding the single code unit u: a code unit in the
\* surrogate range has no partner in the slice and decodes to U+FFFD
DecodeOne(u) == IF u >= 55296 /\ u < 57344 THEN 65533 ELSE u

\* utf8.EncodeRune for a rune below 0x10000 that is no surrogate
EncodeRune(r) ==
    IF r < 128 THEN <<r>>
    ELSE IF r < 2048 THEN <<192 + (r \div 64), 128 + (r % 64)>>
    ELSE <<224 + (r \div 4096), 128 + ((r \div 64) % 64), 128 + (r % 64)>>

\* the loop of decodeLabel from byte offset i (0-based): one rune per code unit
RECURSIVE DecodeFrom(_, _)
DecodeFrom(b, i) ==
    IF i >= Len(b) THEN <<>>
    ELSE EncodeRune(DecodeOne(CodeUnit(b[i + 1], b[i + 2]))) \o DecodeFrom(b, i + 2)

\* the offsets of b the loop of decodeLabel reads from offset i on: b[i] and
\* b[i+1] in every iteration (partitions.go:178-179)
RECURSIVE LoopReads(_, _)
LoopReads(b, i) ==
    IF i >= Len(b) THEN <<>> ELSE <<i, i + 1>> \o LoopReads(b, i + 2)

\* the offsets of b that decodeLabel reads
decodeLabelReads(b) == IF Len(b) % 2 # 0 THEN <<>> ELSE LoopReads(b, 0)

\* a decodeLabel without the length check, which decodes the even part of b
decodeLabelUnchecked(b) ==
    [s |-> Trim(DecodeFrom(SubSeq(b, 1, Len(b) - (Len(b) % 2)), 0), NulCutset),
     err |-> FALSE]

decodeLabel(b) ==
    IF Len(b) % 2 # 0
    THEN [s |-> <<>>, err |-> TRUE]
    ELSE [s |-> Trim(DecodeFrom(b, 0), NulCutset), err |-> FALSE]

(***************************************************************************)
(* The environment: /proc/filesystems, /sys/class/block and the disks.     *)
(***************************************************************************)
Tab == <<9>>
Newline == <<10>>
Dot == <<46>>
nodev == <<110, 111, 100, 101, 118>>
sysfs == <<115, 121, 115, 102, 115>>
ext == <<101, 120, 116>>
ntfs == <<110, 116, 102, 115>>

\* the content of /proc/filesystems: "nodev\tsysfs\n\text4\n\tvfat\n"
ProcFilesystems ==
    nodev \o Tab \o sysfs \o Newline \o Tab \o ext4 \o Newline \o Tab \o vfat \o Newline

sda == <<115, 100, 97>>
\* names that can show up under /sys/class/block:
\* loop0, sda, sda12, sda2
BlockNames ==
    { loop \o <<48>>, sda, sda \o <<49, 50>>, sda \o <<50>> }

\* what one walk of /sys/class/block can find
Namespaces == { ns \in SUBSET BlockNames : Cardinality(ns) <= MaxDevs }

\* a label as it is stored in a partition entry: UTF-16LE, NUL padded
RECURSIVE Utf16LE(_)
Utf16LE(s) == IF s = <<>> THEN <<>> ELSE <<Head(s), 0>> \o Utf16LE(Tail(s))

RECURSIVE Nuls(_)
Nuls(n) == IF n <= 0 THEN <<>> ELSE <<0>> \o Nuls(n - 1)

NameField(s) == Utf16LE(s) \o Nuls(2 * NameUnits - 2 * Len(s))

\* gpt.Partition: IsEmpty() and PartNameUTF16
Entries ==
    { [empty |-> FALSE, name |-> NameField(STBOOT)],
      [empty |-> FALSE, name |-> NameField(STDATA)],
      [empty |-> TRUE, name |-> NameField(STBOOT)] }

\* gpt.Table.Partitions
Tables == UNION { [1..n -> Entries] : n \in 0..MaxParts }

\* what os.Open, fd.Seek and gpt.ReadTable answer for one device
Inspections ==
    { [open |-> FALSE, seek |-> FALSE, parse |-> FALSE, table |-> <<>>],
      [open |-> TRUE, seek |-> FALSE, parse |-> FALSE, table |-> <<>>],
      [open |-> TRUE, seek |-> TRUE, parse |-> FALSE, table |-> <<>>] }
    \cup { [open |-> TRUE, seek |-> TRUE, parse |-> TRUE, table |-> t] : t \in Tables }

\* the arguments findPartition is called with: the two entry points'
\* constants, and further filesystem types
Calls ==
    { [label |-> bootPartitionLabel, fsType |-> bootPartitionFSType,
       mountPoint |-> bootPartitionMountPoint],
      [label |-> dataPartitionLabel, fsType |-> dataPartitionFSType,
       mountPoint |-> dataPartitionMountPoint],
      [label |-> bootPartitionLabel, fsType |-> ext,
       mountPoint |-> bootPartitionMountPoint],
      [label |-> bootPartitionLabel, fsType |-> ntfs,
       mountPoint |-> bootPartitionMountPoint] }

(***************************************************************************)
(* State.                                                                  *)
(***************************************************************************)
VARIABLES
    pc,          \* where findPartition is: idle, enum, locate, scan, resolve, mount, done
    label,       \* findPartition's arguments
    fsType,
    mountPoint,
    timeout,     \* the retry budget left
    budget,      \* the retry budget findPartition was called with
    devices,     \* the list getBlockDevs returned last
    idx,         \* deviceByPartLabel: index of the next device of the first loop
    d,           \* deviceByPartLabel: matched device, "" if none
    p,           \* deviceByPartLabel: matched partition number, "" if none
    openFds,     \* indexes of the devices whose file handle is open
    deferred,    \* the deferred fd.Close() calls, last deferred first
    device,      \* the path deviceByPartLabel returned
    result,      \* findPartition's return: none, ok or the error
    fsReads,     \* number of reads of /proc/filesystems
    enumCalls,   \* number of getBlockDevs calls
    emptyLists,  \* number of getBlockDevs calls that returned an empty list
    sleeps,      \* number of time.Sleep(time.Second) calls
    locatorCalls,\* number of deviceByPartLabel calls
    scanLog,     \* per device of the first loop: what the system answered
    mountCalls,  \* the arguments and the outcome of every mount.Mount call
    walkErrs,    \* number of walks of /sys/class/block that reported an error
    closes,      \* the device indexes of the fd.Close() calls, in order
    matchScan,   \* the partition loop on the matched device: entries skipped
                 \* as empty, and decodeLabel calls, when the loop is left
    input,       \* decodeLabel: the argument b
    decoded,     \* decodeLabel: the return value
    cpc,         \* decodeLabel: input or returned
    reads        \* decodeLabel: the 0-based offsets of b it read, in order

vars ==
    <<pc, label, fsType, mountPoint, timeout, budget, devices, idx, d, p, openFds,
      deferred, device, result, fsReads, enumCalls, emptyLists, sleeps,
      locatorCalls, scanLog, mountCalls, walkErrs, closes, matchScan, input,
      decoded, cpc, reads>>

findVars ==
    <<pc, label, fsType, mountPoint, timeout, budget, devices, idx, d, p, openFds,
      deferred, device, result, fsReads, enumCalls, emptyLists, sleeps,
      locatorCalls, scanLog, mountCalls, walkErrs, closes, matchScan>>

codecVars == <<input, decoded, cpc, reads>>

\* the search has not been started
Idle ==
    /\ pc = "idle"
    /\ label = <<>>
    /\ fsType = <<>>
    /\ mountPoint = <<>>
    /\ timeout = 0
    /\ budget = 0
    /\ devices = <<>>
    /\ idx = 1
    /\ d = <<>>
    /\ p = <<>>
    /\ openFds = {}
    /\ deferred = <<>>
    /\ device = <<>>
    /\ result = "none"
    /\ fsReads = 0
    /\ enumCalls = 0
    /\ emptyLists = 0
    /\ sleeps = 0
    /\ locatorCalls = 0
    /\ scanLog = <<>>
    /\ mountCalls = <<>>
    /\ walkErrs = 0
    /\ closes = <<>>
    /\ matchScan = [skipped |-> 0, decodes |-> 0]

NoInput ==
    /\ input = <<>>
    /\ decoded = [s |-> <<>>, err |-> FALSE]
    /\ cpc = "none"
    /\ reads = <<>>

Init == Idle /\ NoInput

(***************************************************************************)
(* getBlockDevs (partitions.go:84-109).                                    *)
(***************************************************************************)
\* a walk callback that passes over an entry reported with an error
RECURSIVE WalkFromSkipping(_, _, _, _)
WalkFromSkipping(visit, i, failAt, devnames) ==
    IF i > Len(visit) THEN [devs |-> devnames, err |-> FALSE]
    ELSE IF i = failAt \/ visit[i] = Dot \/ Contains(visit[i], loop)
    THEN WalkFromSkipping(visit, i + 1, failAt, devnames)
    ELSE WalkFromSkipping(visit, i + 1, failAt,
                          Append(devnames, Join(slashDev, visit[i])))

\* the walk callback over the visited names from position i on; the entry at
\* position failAt is reported with an error
RECURSIVE WalkFrom(_, _, _, _)
WalkFrom(visit, i, failAt, devnames) ==
    IF i > Len(visit) THEN [devs |-> devnames, err |-> FALSE]
    ELSE IF i = failAt THEN [devs |-> <<>>, err |-> TRUE]
    ELSE IF visit[i] = Dot THEN WalkFrom(visit, i + 1, failAt, devnames)
    ELSE IF Contains(visit[i], loop) THEN WalkFrom(visit, i + 1, failAt, devnames)
    ELSE WalkFrom(visit, i + 1, failAt, Append(devnames, Join(slashDev, visit[i])))

\* ns: the names under /sys/class/block; failAt: 0, or the position of the
\* visited entry (the root is first) that the walk fails on
getBlockDevs(ns, failAt) == WalkFrom(<<Dot>> \o WalkOrder(ns), 1, failAt, <<>>)

\* the walk of ns meets an entry it cannot read: the root or one of the names
WalkFails(ns, failAt) == failAt \in 1..(Cardinality(ns) + 1)

(***************************************************************************)
(* findPartition (partitions.go:41-82).                                    *)
(***************************************************************************)
\* partitions.go:47
FsKnown(fs, t) == Contains(fs, t)

\* a budget check that gives up one retry early
BudgetExhaustedEarly(t) == t <= 1

\* a budget check that grants one retry too many
BudgetExhaustedLate(t) == t < 0

\* partitions.go:58
BudgetExhausted(t) == t = 0

\* partitions.go:41-49: the call, and the check of the filesystem type
Call(c, t, readOk) ==
    /\ pc = "idle"
    /\ label' = c.label
    /\ fsType' = c.fsType
    /\ mountPoint' = c.mountPoint
    /\ timeout' = t
    /\ budget' = t
    /\ fsReads' = fsReads + 1
    /\ IF ~readOk
       THEN pc' = "done" /\ result' = "readerr"
       ELSE IF ~FsKnown(ProcFilesystems, c.fsType)
       THEN pc' = "done" /\ result' = "fsunknown"
       ELSE pc' = "enum" /\ result' = result
    /\ UNCHANGED <<devices, idx, d, p, openFds, deferred, device, enumCalls,
                   emptyLists, sleeps, locatorCalls, scanLog, mountCalls,
                   walkErrs, closes, matchScan>>
    /\ UNCHANGED codecVars

\* partitions.go:52-68: one iteration of the waiting loop
Enumerate(ns, failAt) ==
    /\ pc = "enum"
    /\ LET r == getBlockDevs(ns, failAt) IN
       /\ enumCalls' = enumCalls + 1
       /\ walkErrs' = IF WalkFails(ns, failAt) THEN walkErrs + 1 ELSE walkErrs
       /\ devices' = r.devs
       /\ IF r.err
          THEN /\ pc' = "done"
               /\ result' = "enumerr"
               /\ UNCHANGED <<timeout, sleeps, emptyLists>>
          ELSE IF Len(r.devs) = 0
          THEN /\ emptyLists' = emptyLists + 1
               /\ IF BudgetExhausted(timeout)
                  THEN /\ pc' = "done"
                       /\ result' = "nodevices"
                       /\ UNCHANGED <<timeout, sleeps>>
                  ELSE /\ timeout' = timeout - 1
                       /\ sleeps' = sleeps + 1
                       /\ pc' = "enum"
                       /\ result' = result
          ELSE /\ pc' = "locate"
               /\ result' = result
               /\ UNCHANGED <<timeout, sleeps, emptyLists>>
    /\ UNCHANGED <<label, fsType, mountPoint, budget, idx, d, p, openFds, deferred,
                   device, fsReads, locatorCalls, scanLog, mountCalls, closes,
                   matchScan>>
    /\ UNCHANGED codecVars

\* partitions.go:70: the call of deviceByPartLabel(devices, label)
CallLocator ==
    /\ pc = "locate"
    /\ locatorCalls' = locatorCalls + 1
    /\ idx' = 1
    /\ d' = <<>>
    /\ p' = <<>>
    /\ pc' = IF Len(devices) = 0 THEN "resolve" ELSE "scan"
    /\ UNCHANGED <<label, fsType, mountPoint, timeout, budget, devices, openFds,
                   deferred, device, result, fsReads, enumCalls, emptyLists,
                   sleeps, scanLog, mountCalls, walkErrs, closes, matchScan>>
    /\ UNCHANGED codecVars

(***************************************************************************)
(* deviceByPartLabel (partitions.go:111-165).                              *)
(***************************************************************************)
\* a partition loop that numbers only the entries that are not empty
RECURSIVE ScanTableCompact(_, _, _)
ScanTableCompact(parts, n, l) ==
    LET used == SelectSeq(parts, LAMBDA e : ~e.empty) IN
    IF n >= Len(used) THEN -1
    ELSE IF decodeLabel(used[n + 1].name).s = l THEN n
    ELSE ScanTableCompact(parts, n + 1, l)

\* a partition loop that does not skip the entries flagged empty
RECURSIVE ScanTableNoSkip(_, _, _)
ScanTableNoSkip(parts, n, l) ==
    IF n >= Len(parts) THEN -1
    ELSE IF decodeLabel(parts[n + 1].name).s = l THEN n
    ELSE ScanTableNoSkip(parts, n + 1, l)

\* partitions.go:130-147: the loop over table.Partitions from 0-based index n;
\* the 0-based index of the entry the loop breaks on, or -1 if it runs out
RECURSIVE ScanTable(_, _, _)
ScanTable(parts, n, l) ==
    IF n >= Len(parts) THEN -1
    ELSE IF parts[n + 1].empty THEN ScanTable(parts, n + 1, l)
    ELSE LET r == decodeLabel(parts[n + 1].name) IN
         IF r.err THEN ScanTable(parts, n + 1, l)
         ELSE IF r.s = l THEN n
         ELSE ScanTable(parts, n + 1, l)

\* a partition number that counts from zero
PartNumberZeroBased(n) == Itoa(n)

\* partitions.go:130-147: what the loop over table.Partitions does from
\* 0-based index n on, after c.skipped entries skipped as empty and c.decodes
\* decodeLabel calls: the counts when it breaks or runs out
RECURSIVE ScanCounts(_, _, _, _)
ScanCounts(parts, n, l, c) ==
    IF n >= Len(parts) THEN c
    ELSE IF parts[n + 1].empty
    THEN ScanCounts(parts, n + 1, l, [c EXCEPT !.skipped = @ + 1])
    ELSE LET r == decodeLabel(parts[n + 1].name)
             c2 == [c EXCEPT !.decodes = @ + 1]
         IN  IF r.err THEN ScanCounts(parts, n + 1, l, c2)
             ELSE IF r.s = l THEN c2
             ELSE ScanCounts(parts, n + 1, l, c2)

\* partitions.go:142
PartNumber(n) == Itoa(n + 1)

\* partitions.go:148 and 152
Matched(dv, pn) == dv # <<>> /\ pn # <<>>

\* the first entry in partition-array order that is not empty and whose
\* decoded label is l: its 1-based position, 0 if there is none
FirstMatch(parts, l) ==
    LET hits == { k \in 1..Len(parts) :
                    /\ ~parts[k].empty
                    /\ ~decodeLabel(parts[k].name).err
                    /\ decodeLabel(parts[k].name).s = l }
    IN  IF hits = {} THEN 0 ELSE CHOOSE k \in hits : \A j \in hits : k <= j

\* what the scan log keeps of one inspection
LogEntry(i, o, l) ==
    [dev |-> i,
     class |-> IF ~o.open THEN "openfail"
               ELSE IF ~o.seek THEN "seekfail"
               ELSE IF ~o.parse THEN "parsefail"
               ELSE "parsed",
     first |-> IF o.open /\ o.seek /\ o.parse THEN FirstMatch(o.table, l) ELSE 0]

\* a first loop without the break after a match
AfterDeviceNoBreak(o, dv, pn, next, len) ==
    IF next > len THEN "resolve" ELSE "scan"

\* a first loop that gives up at the first device it cannot read
AfterDeviceAbort(o, dv, pn, next, len) ==
    IF ~o.parse \/ dv # <<>> \/ next > len THEN "resolve" ELSE "scan"

\* partitions.go:116-129 and 148-150: where the first loop goes after the
\* device answered o: on to the next device, or out of the loop
AfterDevice(o, dv, pn, next, len) ==
    IF Matched(dv, pn) \/ next > len THEN "resolve" ELSE "scan"

\* a defer placed after the seek check: no close for a device that fails to seek
DeferralAfterSeek(o, i, stack) == IF o.open /\ o.seek THEN <<i>> \o stack ELSE stack

\* partitions.go:115-120: defer fd.Close() once the device is open
Deferral(o, i, stack) == IF o.open THEN <<i>> \o stack ELSE stack

\* partitions.go:114-151: one iteration of the first loop, on devices[idx];
\* o is what the system answers for that device
ScanDevice(o) ==
    /\ pc = "scan"
    /\ idx <= Len(devices)
    /\ LET dev == devices[idx]
           none == [skipped |-> 0, decodes |-> 0]
           n == IF o.open /\ o.seek /\ o.parse THEN ScanTable(o.table, 0, label) ELSE -1
           dNew == IF n >= 0 THEN dev ELSE d
           pNew == IF n >= 0 THEN PartNumber(n) ELSE p
       IN  /\ openFds' = IF o.open THEN openFds \cup {idx} ELSE openFds
           /\ deferred' = Deferral(o, idx, deferred)
           /\ matchScan' = IF n >= 0 THEN ScanCounts(o.table, 0, label, none)
                            ELSE matchScan
           /\ d' = dNew
           /\ p' = pNew
           /\ idx' = idx + 1
           /\ pc' = AfterDevice(o, dNew, pNew, idx + 1, Len(devices))
           /\ scanLog' = Append(scanLog, LogEntry(idx, o, label))
    /\ UNCHANGED <<label, fsType, mountPoint, timeout, budget, devices, device,
                   result, fsReads, enumCalls, emptyLists, sleeps, locatorCalls,
                   mountCalls, walkErrs, closes>>
    /\ UNCHANGED codecVars

\* a test that wants the remainder to be the partition number
IsPartitionOfExact(dev, dv, pn) == TrimPrefix(dev, dv) = pn

\* a test that looks for the partition number in the whole path
IsPartitionOfWholePath(dev, dv, pn) == Contains(dev, pn)

\* partitions.go:157-158
IsPartitionOf(dev, dv, pn) == Contains(TrimPrefix(dev, dv), pn)

\* partitions.go:153-162: the second loop from position i on
RECURSIVE ResolveFrom(_, _, _, _)
ResolveFrom(devs, i, dv, pn) ==
    IF i > Len(devs) THEN [path |-> <<>>, err |-> "resolvefail"]
    ELSE IF ~HasPrefix(devs[i], dv) THEN ResolveFrom(devs, i + 1, dv, pn)
    ELSE IF IsPartitionOf(devs[i], dv, pn) THEN [path |-> devs[i], err |-> "none"]
    ELSE ResolveFrom(devs, i + 1, dv, pn)

\* partitions.go:152-164: what deviceByPartLabel returns after the first loop
LocatorReturn(devs, dv, pn) ==
    IF Matched(dv, pn) THEN ResolveFrom(devs, 1, dv, pn)
    ELSE [path |-> <<>>, err |-> "notfound"]

\* a findPartition that waits for devices again when the label was not found
AfterLocatorRetry(err) ==
    IF err = "notfound" /\ timeout > 0 THEN "enum"
    ELSE IF err # "none" THEN "done" ELSE "mount"

\* partitions.go:70-75: where findPartition goes with the error of
\* deviceByPartLabel
AfterLocator(err) == IF err # "none" THEN "done" ELSE "mount"

\* partitions.go:152-164 and 70-73: deviceByPartLabel returns, its deferred
\* fd.Close() calls run, and findPartition takes the result
Resolve ==
    /\ pc = "resolve"
    /\ LET r == LocatorReturn(devices, d, p) IN
       /\ device' = r.path
       /\ pc' = AfterLocator(r.err)
       /\ result' = IF r.err # "none" THEN r.err ELSE result
    /\ openFds' = openFds \ { deferred[k] : k \in 1..Len(deferred) }
    /\ closes' = closes \o deferred
    /\ deferred' = <<>>
    /\ UNCHANGED <<label, fsType, mountPoint, timeout, budget, devices, idx, d, p,
                   fsReads, enumCalls, emptyLists, sleeps, locatorCalls, scanLog,
                   mountCalls, walkErrs, matchScan>>
    /\ UNCHANGED codecVars

\* a mount call with mount point and filesystem type exchanged
MountArgsSwapped(dev, mp, fs) == [dev |-> dev, path |-> fs, fstype |-> mp]

\* partitions.go:75: the arguments of mount.Mount(device, mountPoint, fsType, "", 0)
MountArgs(dev, mp, fs) == [dev |-> dev, path |-> mp, fstype |-> fs]

\* partitions.go:75-81: the mount, which succeeds (ok) or fails
Mount(ok) ==
    /\ pc = "mount"
    /\ mountCalls' = Append(mountCalls,
                            [args |-> MountArgs(device, mountPoint, fsType), ok |-> ok])
    /\ result' = IF ok THEN "ok" ELSE "mountfail"
    /\ pc' = "done"
    /\ UNCHANGED <<label, fsType, mountPoint, timeout, budget, devices, idx, d, p,
                   openFds, deferred, device, fsReads, enumCalls, emptyLists,
                   sleeps, locatorCalls, scanLog, walkErrs, closes, matchScan>>
    /\ UNCHANGED codecVars

Next ==
    \/ \E c \in Calls, t \in 0..MaxTimeout, readOk \in BOOLEAN : Call(c, t, readOk)
    \/ \E ns \in Namespaces, failAt \in 0..(MaxDevs + 1) : Enumerate(ns, failAt)
    \/ CallLocator
    \/ \E o \in Inspections : ScanDevice(o)
    \/ Resolve
    \/ \E ok \in BOOLEAN : Mount(ok)

Spec == Init /\ [][Next]_vars

\* findPartition runs on the caller's thread: while it has a next statement,
\* it executes it
FairSpec == Spec /\ WF_vars(Next)

(***************************************************************************)
(* decodeLabel called on its own.                                          *)
(***************************************************************************)
\* the code units the inputs are made of: NUL, 'A', U+00E9, U+20AC, and the
\* surrogate pair D83D DE00 of U+1F600
Units == {0, 65, 233, 8364, 55357, 56832}

UnitSeqs == UNION { [1..n -> Units] : n \in 0..MaxUnits }

\* code units to little-endian bytes
RECURSIVE UnitsLE(_)
UnitsLE(us) ==
    IF us = <<>> THEN <<>>
    ELSE <<Head(us) % 256, Head(us) \div 256>> \o UnitsLE(Tail(us))

\* the inputs: every sequence of code units, and each with its last byte cut
CodecInputs ==
    { UnitsLE(us) : us \in UnitSeqs }
    \cup { SubSeq(UnitsLE(us), 1, 2 * Len(us) - 1) : us \in UnitSeqs \ {<<>>} }

InitCodec ==
    /\ Idle
    /\ input \in CodecInputs
    /\ decoded = [s |-> <<>>, err |-> FALSE]
    /\ cpc = "input"
    /\ reads = <<>>

\* partitions.go:167-186: decodeLabel(input) returns
Decode ==
    /\ cpc = "input"
    /\ decoded' = decodeLabel(input)
    /\ reads' = decodeLabelReads(input)
    /\ cpc' = "returned"
    /\ UNCHANGED input
    /\ UNCHANGED findVars

NextCodec == Decode

SpecCodec == InitCodec /\ [][NextCodec]_vars

(***************************************************************************)
(* Properties of findPartition's waiting loop.                             *)
(***************************************************************************)
\* findPartition has left the waiting loop with a non-empty device list
LeftLoop ==
    \/ pc \in {"locate", "scan", "resolve", "mount"}
    \/ pc = "done" /\ result \in {"notfound", "resolvefail", "mountfail", "ok"}

\* C1: when the enumerator returned an empty list on its first N calls and a
\* non-empty list on call N+1, with retry budget B >= N, findPartition has
\* left the waiting loop after exactly N sleeps and N+1 enumerator calls (it
\* never gives up while N <= B), and once the mount has succeeded it returns
\* success.
C1_RetrySuccess ==
    /\ LeftLoop =>
          /\ Len(devices) > 0
          /\ emptyLists <= budget
          /\ sleeps = emptyLists
          /\ enumCalls = emptyLists + 1
          /\ timeout = budget - emptyLists
    /\ result = "nodevices" => emptyLists > budget
    /\ (pc = "done" /\ mountCalls # <<>> /\ mountCalls[Len(mountCalls)].ok) =>
          result = "ok"

\* C1 witness: the devices appeared after two empty lists, and the search
\* ended in a successful mount
C1_Witness ==
    /\ pc = "done"
    /\ result = "ok"
    /\ emptyLists = 2
    /\ sleeps = 2
    /\ enumCalls = 3

\* C2: when every enumerator call returns an empty list and the retry budget
\* is K, findPartition fails with the no-devices error after exactly K+1
\* enumerator calls and K sleeps, without calling the locator or the mount.
C2_RetryExhaustion ==
    /\ result = "nodevices" =>
          /\ pc = "done"
          /\ enumCalls = budget + 1
          /\ emptyLists = budget + 1
          /\ sleeps = budget
          /\ locatorCalls = 0
          /\ mountCalls = <<>>
    /\ (emptyLists = enumCalls /\ result # "enumerr" /\ pc # "idle") =>
          /\ enumCalls <= budget + 1
          /\ sleeps = IF enumCalls <= budget THEN enumCalls ELSE budget
          /\ (enumCalls = budget + 1 => pc = "done" /\ result = "nodevices")
          /\ locatorCalls = 0
          /\ mountCalls = <<>>

\* C2 witness: a budget of two used up by three empty lists
C2_Witness ==
    /\ result = "nodevices"
    /\ budget = 2
    /\ enumCalls = 3
    /\ sleeps = 2

(***************************************************************************)
(* Properties of the partition locator's scan.                             *)
(***************************************************************************)
\* the inspected devices that parsed and hold a non-empty entry whose decoded
\* label is the target
Hits == { k \in 1..Len(scanLog) : scanLog[k].first > 0 }

FirstHit == CHOOSE k \in Hits : \A j \in Hits : k <= j

\* the inspected devices that failed to open, to seek or to parse
Failed(k) == scanLog[k].class \in {"openfail", "seekfail", "parsefail"}

\* the first loop of deviceByPartLabel is over
ScanOver == pc \in {"resolve", "mount"} \/ (pc = "done" /\ locatorCalls > 0)

\* deviceByPartLabel has returned
LocatorReturned == pc = "mount" \/ (pc = "done" /\ locatorCalls > 0)

\* C3: the devices are inspected in list order, and the pair the locator
\* selects is the first device in that order that opens, seeks and parses and
\* holds a matching non-empty entry, with the 1-based position of its first
\* such entry; nothing is selected while no such entry has been seen.
C3_FirstMatchWins ==
    /\ \A k \in 1..Len(scanLog) : scanLog[k].dev = k
    /\ pc = "scan" => Hits = {} /\ d = <<>> /\ p = <<>>
    /\ ScanOver =>
          IF Hits = {} THEN d = <<>> /\ p = <<>>
          ELSE /\ d = devices[FirstHit]
               /\ p = Itoa(scanLog[FirstHit].first)

\* C3 witness: the second device matched on its second entry, after a first
\* device that parsed and held no match
C3_Witness ==
    /\ ScanOver
    /\ Len(scanLog) = 2
    /\ scanLog[1].class = "parsed"
    /\ scanLog[1].first = 0
    /\ scanLog[2].first = 2
    /\ d = devices[2]
    /\ p = <<50>>

\* C4: the locator fails with the not-found error exactly when no inspected
\* device holds a matching entry, and by then an open has been attempted on
\* every device of the list, in list order.
C4_NotFoundAfterFullScan ==
    /\ result = "notfound" =>
          /\ Hits = {}
          /\ Len(scanLog) = Len(devices)
          /\ \A k \in 1..Len(devices) : scanLog[k].dev = k
    /\ (LocatorReturned /\ Hits = {}) => result = "notfound"

\* C4 witness: not found after three devices, one of which parsed
C4_Witness ==
    /\ result = "notfound"
    /\ Len(devices) = 3
    /\ Len(scanLog) = 3
    /\ \E k \in 1..3 : scanLog[k].class = "parsed"

\* C9: a device that fails to open, to seek or to parse does not end the
\* scan: while a later device exists it has been inspected or is the next to
\* be inspected, no error is returned at the failure, and a match on a later
\* device is selected.
C9_FailuresDoNotAbort ==
    /\ \A k \in 1..Len(scanLog) :
          (Failed(k) /\ k < Len(devices)) =>
             \/ Len(scanLog) > k
             \/ pc = "scan" /\ idx = k + 1 /\ result = "none"
    /\ (ScanOver /\ Hits # {} /\ \E j \in 1..Len(scanLog) : Failed(j)) =>
          /\ d = devices[FirstHit]
          /\ result # "notfound"

\* C9 witness: an open failure and a seek failure, then a match on the third
\* device
C9_Witness ==
    /\ ScanOver
    /\ Len(scanLog) = 3
    /\ scanLog[1].class = "openfail"
    /\ scanLog[2].class = "seekfail"
    /\ scanLog[3].first > 0
    /\ d = devices[3]

(***************************************************************************)
(* Properties of the mount.                                                *)
(***************************************************************************)
\* C6: mount.Mount is called at most once, only after the locator matched
\* and resolved a path, with that path, the requested mount point and the
\* requested filesystem type; a search that fails earlier never calls it; a
\* failed mount makes findPartition return an error.
C6_MountOnceAfterResolution ==
    /\ Len(mountCalls) <= 1
    /\ mountCalls # <<>> =>
          /\ pc = "done"
          /\ Hits # {}
          /\ LocatorReturn(devices, d, p).err = "none"
          /\ mountCalls[1].args.dev = LocatorReturn(devices, d, p).path
          /\ mountCalls[1].args.dev # <<>>
          /\ mountCalls[1].args.path = mountPoint
          /\ mountCalls[1].args.fstype = fsType
          /\ result = IF mountCalls[1].ok THEN "ok" ELSE "mountfail"
    /\ result \in {"readerr", "fsunknown", "enumerr", "nodevices", "notfound",
                   "resolvefail"} => mountCalls = <<>>
    /\ result = "ok" => Len(mountCalls) = 1

\* C6 witness: one mount of /dev/sda2 at "boot" as vfat
C6_Witness ==
    /\ result = "ok"
    /\ Len(mountCalls) = 1
    /\ mountCalls[1].args = [dev |-> Join(slashDev, sda \o <<50>>),
                             path |-> boot, fstype |-> vfat]

(***************************************************************************)
(* Properties of the partition path resolver.                              *)
(***************************************************************************)
\* C5: the path the resolver returns is the node of partition p of the base
\* device d: the base path followed by exactly the partition number (or by
\* "p" and the partition number), never a node whose suffix merely contains
\* the digits of p.
C5_ResolverExactNode ==
    (LocatorReturned /\ device # <<>>) =>
        /\ HasPrefix(device, d)
        /\ TrimPrefix(device, d) \in {p, <<112>> \o p}

(***************************************************************************)
(* Properties of the filesystem type check.                                *)
(***************************************************************************)
\* the filesystem types a /proc/filesystems content lists: on every line, the
\* field after the tab
ListedTypes(fs) ==
    { SubSeq(fs, i, j) : i \in 1..Len(fs), j \in 1..Len(fs) } \cap
    { ty \in { SubSeq(fs, i, j) : i \in 1..Len(fs), j \in 1..Len(fs) } :
        /\ ty # <<>>
        /\ \A k \in 1..Len(ty) : ty[k] \notin {9, 10}
        /\ Contains(fs, Tab \o ty \o Newline) }

\* C7: when the filesystem type is not one of the types /proc/filesystems
\* lists, findPartition returns the unsupported-filesystem error before any
\* enumerator call, sleep or mount, having read the list exactly once.
C7_UnsupportedFailsFast ==
    (pc # "idle" /\ result # "readerr" /\ fsType \notin ListedTypes(ProcFilesystems)) =>
        /\ pc = "done"
        /\ result = "fsunknown"
        /\ fsReads = 1
        /\ enumCalls = 0
        /\ sleeps = 0
        /\ mountCalls = <<>>

(***************************************************************************)
(* Properties of the device handles.                                       *)
(***************************************************************************)
\* C8: at most one device handle is open at any time: the handle of a device
\* is closed before the next device is opened.
C8_OneHandleOpen == Cardinality(openFds) <= 1

(***************************************************************************)
(* Properties of decodeLabel.                                              *)
(***************************************************************************)
\* the 16-bit little-endian code units of an even-length byte sequence
RECURSIVE UnitsOf(_)
UnitsOf(bs) ==
    IF Len(bs) < 2 THEN <<>>
    ELSE <<bs[1] + 256 * bs[2]>> \o UnitsOf(SubSeq(bs, 3, Len(bs)))

IsHigh(u) == u >= 55296 /\ u < 56320
IsLow(u) == u >= 56320 /\ u < 57344

\* well-formed UTF-16: every high surrogate is followed by a low surrogate,
\* and no low surrogate stands alone
RECURSIVE WellFormed(_)
WellFormed(us) ==
    IF us = <<>> THEN TRUE
    ELSE IF IsHigh(us[1])
    THEN Len(us) >= 2 /\ IsLow(us[2]) /\ WellFormed(SubSeq(us, 3, Len(us)))
    ELSE ~IsLow(us[1]) /\ WellFormed(Tail(us))

\* the code units before the NUL padding
RECURSIVE BeforePadding(_)
BeforePadding(us) ==
    IF us # <<>> /\ us[Len(us)] = 0 THEN BeforePadding(SubSeq(us, 1, Len(us) - 1))
    ELSE us

\* the runes of a UTF-8 string
RECURSIVE Utf8Runes(_)
Utf8Runes(s) ==
    IF s = <<>> THEN <<>>
    ELSE IF s[1] < 128 THEN <<s[1]>> \o Utf8Runes(Tail(s))
    ELSE IF s[1] < 224
    THEN <<(s[1] - 192) * 64 + (s[2] - 128)>> \o Utf8Runes(SubSeq(s, 3, Len(s)))
    ELSE IF s[1] < 240
    THEN <<(s[1] - 224) * 4096 + (s[2] - 128) * 64 + (s[3] - 128)>>
         \o Utf8Runes(SubSeq(s, 4, Len(s)))
    ELSE <<(s[1] - 240) * 262144 + (s[2] - 128) * 4096 + (s[3] - 128) * 64
           + (s[4] - 128)>> \o Utf8Runes(SubSeq(s, 5, Len(s)))

\* the UTF-16 code units of a sequence of runes
RECURSIVE Utf16Units(_)
Utf16Units(rs) ==
    IF rs = <<>> THEN <<>>
    ELSE IF rs[1] < 65536 THEN <<rs[1]>> \o Utf16Units(Tail(rs))
    ELSE <<55296 + ((rs[1] - 65536) \div 1024), 56320 + ((rs[1] - 65536) % 1024)>>
         \o Utf16Units(Tail(rs))

\* an even-length input of well-formed UTF-16 without NUL, then NUL padding
ValidPadded(bs) ==
    /\ Len(bs) % 2 = 0
    /\ WellFormed(BeforePadding(UnitsOf(bs)))
    /\ \A k \in 1..Len(BeforePadding(UnitsOf(bs))) : BeforePadding(UnitsOf(bs))[k] # 0

\* C10: for an even-length input of well-formed UTF-16LE code units followed
\* by NUL padding, decodeLabel succeeds and its result, encoded to UTF-16
\* again, is the code units before the padding.
C10_RoundTrip ==
    (cpc = "returned" /\ ValidPadded(input)) =>
        /\ ~decoded.err
        /\ Utf16Units(Utf8Runes(decoded.s)) = BeforePadding(UnitsOf(input))

\* C11: on an input of odd length decodeLabel returns the odd-length error
\* with an empty string, having read nothing; on every input it returns
\* having read each byte offset at most once, and only offsets of the input.
C11_OddLengthFails ==
    cpc = "returned" =>
        /\ Len(input) % 2 # 0 =>
              /\ decoded.err
              /\ decoded.s = <<>>
              /\ reads = <<>>
        /\ Len(input) % 2 = 0 => ~decoded.err
        /\ \A j, k \in 1..Len(reads) : reads[j] = reads[k] => j = k
        /\ \A k \in 1..Len(reads) : reads[k] \in 0..(Len(input) - 1)
        /\ Len(reads) <= Len(input)

\* C11 witness: decodeLabel returned the error for an input of three bytes
C11_Witness ==
    /\ cpc = "returned"
    /\ Len(input) = 3
    /\ decoded.err

\* C18: for an input of even length, the result is the decoded string with
\* its trailing NUL characters removed and nothing else: NUL characters at
\* the start of the decoded string are kept.
C18_TrailingNulOnly ==
    (cpc = "returned" /\ Len(input) % 2 = 0) =>
        decoded.s = TrimRight(DecodeFrom(input, 0), NulCutset)

(***************************************************************************)
(* Properties of findPartition's control flow.                             *)
(***************************************************************************)
\* what C12 says of one step of findPartition
OnlyWaitRetriedStep ==
    /\ pc \in {"locate", "scan", "resolve", "mount", "done"} =>
          /\ enumCalls' = enumCalls
          /\ sleeps' = sleeps
          /\ timeout' = timeout
          /\ devices' = devices
          /\ pc' # "enum"
    /\ locatorCalls' <= 1
    /\ pc = "locate" => locatorCalls' = 1
    /\ pc = "resolve" =>
          /\ Len(scanLog) > 0
          /\ locatorCalls' = 1
          /\ (\A k \in 1..Len(scanLog) : scanLog[k].first = 0) =>
                pc' = "done" /\ result' = "notfound"
          /\ result' \in {"notfound", "resolvefail"} => pc' = "done"

\* C12: once getBlockDevs has returned a non-empty list, findPartition makes
\* no further getBlockDevs call and no further sleep, calls deviceByPartLabel
\* exactly once on that list, and ends with the not-found or resolution
\* error as it stands, whatever is left of the retry budget.
C12_OnlyWaitRetried == [][OnlyWaitRetriedStep]_vars

\* C12 witness: the label was not found on the devices present at the first
\* enumeration, and the search ended with retry budget left
C12_Witness ==
    /\ pc = "done"
    /\ result = "notfound"
    /\ timeout = 2
    /\ enumCalls = 1
    /\ sleeps = 0
    /\ locatorCalls = 1

\* C13: a walk error on any getBlockDevs call ends findPartition at once with
\* an error: no device list is kept, and no further getBlockDevs call, sleep,
\* deviceByPartLabel call or mount follows, whatever is left of the budget.
C13_EnumerationFailureFatal ==
    /\ walkErrs > 0 <=> result = "enumerr"
    /\ result = "enumerr" =>
          /\ pc = "done"
          /\ walkErrs = 1
          /\ devices = <<>>
          /\ enumCalls = emptyLists + 1
          /\ sleeps = emptyLists
          /\ timeout = budget - emptyLists
          /\ locatorCalls = 0
          /\ mountCalls = <<>>

\* C13 witness: the walk failed on the second getBlockDevs call, with retry
\* budget left
C13_Witness ==
    /\ result = "enumerr"
    /\ enumCalls = 2
    /\ sleeps = 1
    /\ timeout = 1

\* C14: findPartition never sleeps more than its retry budget, and it
\* terminates.
C14_BoundedBlocking == [](sleeps <= budget) /\ <>[](pc = "done")

\* C14 witness: a search that ended after sleeping its whole budget of two
C14_Witness ==
    /\ pc = "done"
    /\ budget = 2
    /\ sleeps = 2

(***************************************************************************)
(* Properties of the resolver and of the scan's end.                       *)
(***************************************************************************)
\* the entries of the device list that start with the base device d and
\* whose remainder contains the partition number p
Candidates ==
    { k \in 1..Len(devices) :
        /\ Len(devices[k]) >= Len(d)
        /\ SubSeq(devices[k], 1, Len(d)) = d
        /\ \E i \in (Len(d) + 1)..(Len(devices[k]) - Len(p) + 1) :
              SubSeq(devices[k], i, i + Len(p) - 1) = p }

FirstCandidate == CHOOSE k \in Candidates : \A j \in Candidates : k <= j

\* C15: after a match, deviceByPartLabel returns the first entry of the
\* scanned list that starts with the base device and whose remainder contains
\* the partition number, and the resolution error if and only if there is no
\* such entry; the list is the one enumerated before the scan.
C15_ReferenceResolver ==
    /\ (LocatorReturned /\ Hits # {}) =>
          /\ enumCalls = emptyLists + 1
          /\ IF Candidates = {}
             THEN result = "resolvefail" /\ device = <<>>
             ELSE result # "resolvefail" /\ device = devices[FirstCandidate]
    /\ result = "resolvefail" => Hits # {} /\ Candidates = {}

\* C15 witness: partition 2 of /dev/sda resolved to /dev/sda12, the first
\* entry whose remainder contains "2"
C15_Witness ==
    /\ LocatorReturned
    /\ d = Join(slashDev, sda)
    /\ p = <<50>>
    /\ Len(devices) = 3
    /\ device = devices[2]
    /\ device = Join(slashDev, sda \o <<49, 50>>)

\* C16: after the match no later entry of the matched device is decoded or
\* compared, and no later device of the list is opened.
C16_StopsAtFirstMatch ==
    (ScanOver /\ Hits # {}) =>
        /\ Len(scanLog) = FirstHit
        /\ idx = FirstHit + 1
        /\ matchScan.skipped + matchScan.decodes = scanLog[FirstHit].first
        /\ openFds \subseteq 1..FirstHit
        /\ \A k \in 1..Len(closes) : closes[k] \in 1..FirstHit

\* C16 witness: a match on the first entry of the first of three devices
C16_Witness ==
    /\ ScanOver
    /\ Len(devices) = 3
    /\ Len(scanLog) = 1
    /\ scanLog[1].first = 1
    /\ matchScan = [skipped |-> 0, decodes |-> 1]

\* C17: an entry flagged empty never matches, even with the target label in
\* its name field; the partition number of a match is the 1-based position of
\* the entry in the partition array, the empty entries before it counted; an
\* entry that fails to decode is passed over and the entries after it are
\* still examined (a name field of odd length, which gpt.ReadTable never
\* returns, stands for the failure).
C17_EmptySkippedButCounted ==
    /\ (ScanOver /\ Hits # {}) =>
          /\ matchScan.decodes >= 1
          /\ p = Itoa(matchScan.skipped + matchScan.decodes)
          /\ scanLog[FirstHit].first = matchScan.skipped + matchScan.decodes
    /\ (ScanOver /\ Hits = {}) =>
          /\ d = <<>>
          /\ p = <<>>
          /\ matchScan = [skipped |-> 0, decodes |-> 0]
    /\ \A l \in {STBOOT, STDATA} :
          /\ ScanTable(<<[empty |-> TRUE, name |-> NameField(l)]>>, 0, l) = -1
          /\ ScanTable(<<[empty |-> FALSE, name |-> <<0>>],
                         [empty |-> FALSE, name |-> NameField(l)]>>, 0, l) = 1

\* C17 witness: the label STBOOT matched on entry 2, after an empty entry
\* that was skipped (the empty entries of the model are named STBOOT)
C17_Witness ==
    /\ ScanOver
    /\ label = STBOOT
    /\ Hits # {}
    /\ matchScan = [skipped |-> 1, decodes |-> 1]
    /\ p = <<50>>

\* the inspected devices that were opened
Opened == { k \in 1..Len(scanLog) : scanLog[k].class # "openfail" }

\* C19: when deviceByPartLabel has returned, on any of its exit paths, every
\* handle it opened has been closed, and no handle is ever closed twice.
C19_HandlesClosedOnReturn ==
    /\ \A j, k \in 1..Len(closes) : closes[j] = closes[k] => j = k
    /\ \A k \in 1..Len(closes) : closes[k] \in Opened
    /\ LocatorReturned =>
          /\ openFds = {}
          /\ deferred = <<>>
          /\ \A k \in Opened : \E j \in 1..Len(closes) : closes[j] = k

\* C19 witness: a match that did not resolve, after a device that failed to
\* seek; both handles are closed
C19_Witness ==
    /\ pc = "done"
    /\ result = "resolvefail"
    /\ Len(scanLog) = 2
    /\ scanLog[1].class = "seekfail"
    /\ closes = <<2, 1>>
    /\ openFds = {}

\* C20: the path deviceByPartLabel returns, and so the path passed to
\* mount.Mount, is never the matched base device: it is the base device
\* path followed by a non-empty suffix.
C20_NeverBaseDevice ==
    /\ (LocatorReturned /\ result \notin {"notfound", "resolvefail"}) =>
          /\ device # d
          /\ Len(device) > Len(d)
          /\ SubSeq(device, 1, Len(d)) = d
    /\ \A k \in 1..Len(mountCalls) :
          /\ mountCalls[k].args.dev # d
          /\ Len(mountCalls[k].args.dev) > Len(d)

\* C20 witness: the base device /dev/sda12 holds the digit of partition 1 and
\* is in the list; it is not returned
C20_Witness ==
    /\ LocatorReturned
    /\ d = Join(slashDev, sda \o <<49, 50>>)
    /\ p = <<49>>
    /\ Contains(d, p)
    /\ result = "resolvefail"

=============================================================================
